---- MODULE Spec2Model ----
(***************************************************************************)
(* hngrep / news (src/main.go): the concurrent fan-out / fan-in pipeline.  *)
(* main resolves the story ids, starts one fetch goroutine per id, and the *)
(* search closure collects the fetchResults from the buffered channel c.   *)
(*                                                                         *)
(* Strings are sequences of one-character strings, so that the regular     *)
(* expression search can be computed.  The remote API is a fixed set of    *)
(* mocked responses (listResp, api) chosen in Init.                        *)
(***************************************************************************)
EXTENDS Integers, Sequences, FiniteSets, TLC

\* Largest number of story ids the story list may hold.
MaxStories == 2

VARIABLES
    flags,      \* the package-level flags news, top, best
    args,       \* flag.Args(): the positional arguments
    listResp,   \* the remote answer to GET <which>stories.json
    api,        \* the remote answer to GET item/<id>.json, per id
    mainpc,     \* position of main
    which,      \* main's category selector
    pattern,    \* main's pattern
    stories,    \* main's stories
    launched,   \* how many go fetch(...) statements main has executed
    c,          \* the buffered channel c (its queue)
    pc,         \* position of each fetch goroutine
    titem,      \* fetch's local variable item, per goroutine
    items,      \* search's local variable items
    nrecv,      \* completed iterations of search's loop
    result,     \* main's result
    err,        \* main's err after search
    printed,    \* what print has been called with
    crashed,    \* an unrecovered panic has ended the process
    outcomes,   \* history: what each goroutine has sent on c, in order
    received,   \* history: what search has received from c, in order
    \* The WaitGroup revision of the program (unnamed/part_000, lines 1-108):
    wmain,      \* position of its main
    itemIDs,    \* its main's itemIDs
    gw,         \* the counter of the sync.WaitGroup gw
    wc,         \* its channel c (the queue)
    wclosed,    \* its channel c has been closed
    wpc,        \* position of each search goroutine
    witem,      \* search's local variable item, per goroutine
    closer,     \* position of the goroutine that waits and closes
    wprinted    \* the items its main has printed, in order

\* The state of the WaitGroup revision.
wgvars == <<wmain, itemIDs, gw, wc, wclosed, wpc, witem, closer, wprinted>>

\* The state of the pipeline of main.go.
pipevars == <<mainpc, which, stories, launched, c, pc, titem, items, nrecv,
              result, err, printed, outcomes, received>>

vars == <<flags, args, listResp, api, mainpc, which, pattern, stories,
          launched, c, pc, titem, items, nrecv, result, err, printed,
          crashed, outcomes, received, wgvars>>

Nil == "nil"
NoResult == [Total |-> -1, Items |-> <<>>]

----------------------------------------------------------------------------
(* Data *)

\* type item: the fields the pipeline reads.
item(id, title) == [ID |-> id, Title |-> title]

\* var item item: the zero value.
ZeroItem == item(0, <<>>)

\* Titles the mocked API serves.
Titles == { <<"a", "G", "o">>, <<"g", "o">> }

\* PATTERN arguments: a literal, the empty pattern, an unclosed group.
Patterns == { <<"G", "o">>, <<>>, <<"(">> }

\* type fetchResult.  from is a history tag (the id whose goroutine sent it);
\* no operation of the program reads it.
fetchResult(it, e, id) == [item |-> it, err |-> e, from |-> id]

\* searchResult with Total counted one too far.
searchResult_offByOne(its) == [Total |-> Len(its) + 1, Items |-> its]

\* type searchResult, as search constructs it.
searchResult(its) == [Total |-> Len(its), Items |-> its]

----------------------------------------------------------------------------
(* The remote API *)

\* Answers to an item request.  kind "neterr": http.Get returns (nil, err).
\* kind "redirecterr": http.Get returns a response with a closed body and an
\* error.  kind "resp": a response with a status and a body.  kind "hang":
\* no answer ever.
Response(kind, status, body, title) ==
    [kind |-> kind, status |-> status, body |-> body, title |-> title]

ItemResponses ==
    { Response("neterr", 0, "none", <<>>),
      Response("redirecterr", 302, "closed", <<>>),
      Response("resp", 200, "garbage", <<>>),
      Response("resp", 404, "errobj", <<>>),
      Response("resp", 503, "garbage", <<>>),
      Response("hang", 0, "none", <<>>) }
    \cup { Response("resp", 200, "item", t) : t \in Titles }

Ids(n) == [k \in 1..n |-> k]

ListResponses ==
    { [kind |-> "neterr", ids |-> <<>>], [kind |-> "garbage", ids |-> <<>>] }
    \cup { [kind |-> "resp", ids |-> Ids(n)] : n \in 0..MaxStories }

----------------------------------------------------------------------------
(* Pure functions *)

\* The regular expressions of the model: every character is a literal, except
\* "." (any character) and "(" (opens a group; no pattern closes one).
\* regexp.Compile fails on an unclosed group.
Compiles(p) == \A k \in 1..Len(p) : p[k] # "("

\* Does p match s at position k?
MatchHere(p, s, k) == \A j \in 1..Len(p) : p[j] = "." \/ p[j] = s[k + j - 1]

\* regexp.MatchString(pattern, s): (matched, err).  An unanchored search; a
\* pattern that does not compile gives (false, err).
MatchString(p, s) ==
    IF Compiles(p)
    THEN [matched |-> \E k \in 1..(Len(s) - Len(p) + 1) : MatchHere(p, s, k),
          err |-> Nil]
    ELSE [matched |-> FALSE, err |-> "regexp: syntax"]

\* json.NewDecoder(resp.Body).Decode(&item) for the item requested as id:
\* the item after the call and the error.  Unknown fields are ignored, so an
\* error object decodes to the zero item without an error; a body that is not
\* JSON, or a closed body, leaves the item zero and gives an error.
Decode(r, id) ==
    CASE r.body = "item"   -> [item |-> item(id, r.title), err |-> Nil]
      [] r.body = "errobj" -> [item |-> ZeroItem, err |-> Nil]
      [] OTHER             -> [item |-> ZeroItem, err |-> "fetch: decode"]

\* Category with the cases tried in the reverse order.
Category_reversed(f) ==
    CASE f.best -> "best"
      [] f.top  -> "top"
      [] f.news -> "new"
      [] OTHER  -> ""

\* The switch of main over the flags: the first true case wins, and no case
\* leaves which at its zero value.
Category(f) ==
    CASE f.news -> "new"
      [] f.top  -> "top"
      [] f.best -> "best"
      [] OTHER  -> ""

\* cap(c): c is made with len(stories) slots.
Cap == Len(stories)

\* The process runs until main returns, exits, or a goroutine panics.
Running == ~crashed /\ mainpc \notin {"usage", "fatal", "exit"}

----------------------------------------------------------------------------
(* Initial state: the command line and the mocked API *)

\* var news, top, best: the declared defaults.
DefaultFlags == [news |-> TRUE, top |-> FALSE, best |-> FALSE]

\* The PATTERN argument and the mocked API.
Env ==
    /\ args \in {<<>>} \cup { <<p>> : p \in Patterns }
    /\ listResp \in ListResponses
    /\ api \in [1..Len(listResp.ids) -> ItemResponses]
    /\ pattern = <<>>
    /\ crashed = FALSE

\* The pipeline of main.go before main's first statement.
PipelineIdle ==
    /\ mainpc = "start"
    /\ which = ""
    /\ stories = <<>>
    /\ launched = 0
    /\ c = <<>>
    /\ pc = [i \in 1..Len(listResp.ids) |-> "idle"]
    /\ titem = [i \in 1..Len(listResp.ids) |-> ZeroItem]
    /\ items = <<>>
    /\ nrecv = 0
    /\ result = NoResult
    /\ err = Nil
    /\ printed = NoResult
    /\ outcomes = [i \in 1..Len(listResp.ids) |-> <<>>]
    /\ received = <<>>

\* The WaitGroup revision before its main's first statement.
WGIdle ==
    /\ wmain = "start"
    /\ itemIDs = <<>>
    /\ gw = 0
    /\ wc = <<>>
    /\ wclosed = FALSE
    /\ wpc = [i \in 1..Len(listResp.ids) |-> "idle"]
    /\ witem = [i \in 1..Len(listResp.ids) |-> ZeroItem]
    /\ closer = "idle"
    /\ wprinted = <<>>

Init ==
    /\ flags \in [news : BOOLEAN, top : BOOLEAN, best : BOOLEAN]
    /\ Env
    /\ PipelineIdle
    /\ WGIdle

\* The WaitGroup revision run with the flags left at their defaults.
InitWG ==
    /\ flags = DefaultFlags
    /\ Env
    /\ PipelineIdle
    /\ WGIdle

----------------------------------------------------------------------------
(* main *)

\* Usage with the message printed and os.Exit(1) left out: flag.Arg(0) is the
\* empty string and main goes on.
Usage_noExit ==
    /\ Running /\ mainpc = "start"
    /\ Len(args) = 0
    /\ pattern' = <<>>
    /\ which' = Category(flags)
    /\ mainpc' = "resolve"
    /\ UNCHANGED <<wgvars, flags, args, listResp, api, stories, launched, c, pc,
                   titem, items, nrecv, result, err, printed, crashed,
                   outcomes, received>>

\* main.go 52-56: no PATTERN: usage message, os.Exit(1).
Usage ==
    /\ Running /\ mainpc = "start"
    /\ Len(args) = 0
    /\ mainpc' = "usage"
    /\ UNCHANGED <<wgvars, flags, args, listResp, api, which, pattern, stories,
                   launched, c, pc, titem, items, nrecv, result, err,
                   printed, crashed, outcomes, received>>

\* main.go 57-67: pattern := flag.Arg(0) and the category switch.
SelectCategory ==
    /\ Running /\ mainpc = "start"
    /\ Len(args) > 0
    /\ pattern' = args[1]
    /\ which' = Category(flags)
    /\ mainpc' = "resolve"
    /\ UNCHANGED <<wgvars, flags, args, listResp, api, stories, launched, c, pc,
                   titem, items, nrecv, result, err, printed, crashed,
                   outcomes, received>>

\* GetStoriesFail with the error of getStories dropped: main goes on with no
\* stories.
GetStoriesFail_ignored ==
    /\ Running /\ mainpc = "resolve"
    /\ listResp.kind # "resp"
    /\ err' = Nil
    /\ mainpc' = "search"
    /\ UNCHANGED <<wgvars, flags, args, listResp, api, which, pattern, stories,
                   launched, c, pc, titem, items, nrecv, result, printed,
                   crashed, outcomes, received>>

\* main.go 68-71 with getStories failing (http.Get error or decode error):
\* log.Fatal(err).
GetStoriesFail ==
    /\ Running /\ mainpc = "resolve"
    /\ listResp.kind # "resp"
    /\ err' = IF listResp.kind = "neterr" THEN "get: transport" ELSE "get: decode"
    /\ mainpc' = "fatal"
    /\ UNCHANGED <<wgvars, flags, args, listResp, api, which, pattern, stories,
                   launched, c, pc, titem, items, nrecv, result, printed,
                   crashed, outcomes, received>>

\* main.go 68-72 with getStories succeeding: stories, then
\* c := make(chan fetchResult, len(stories)).
GetStories ==
    /\ Running /\ mainpc = "resolve"
    /\ listResp.kind = "resp"
    /\ stories' = listResp.ids
    /\ c' = <<>>
    /\ mainpc' = IF Len(listResp.ids) = 0 THEN "search" ELSE "launch"
    /\ UNCHANGED <<wgvars, flags, args, listResp, api, which, pattern, launched, pc,
                   titem, items, nrecv, result, err, printed, crashed,
                   outcomes, received>>

\* Launch with the loop left after its first iteration.
Launch_once ==
    /\ Running /\ mainpc = "launch"
    /\ launched < Len(stories)
    /\ pc' = [pc EXCEPT ![stories[launched + 1]] = "get"]
    /\ launched' = launched + 1
    /\ mainpc' = "search"
    /\ UNCHANGED <<wgvars, flags, args, listResp, api, which, pattern, stories, c,
                   titem, items, nrecv, result, err, printed, crashed,
                   outcomes, received>>

\* main.go 73-76: one iteration of the loop: go fetch(url, c).
Launch ==
    /\ Running /\ mainpc = "launch"
    /\ launched < Len(stories)
    /\ pc' = [pc EXCEPT ![stories[launched + 1]] = "get"]
    /\ launched' = launched + 1
    /\ mainpc' = IF launched + 1 = Len(stories) THEN "search" ELSE "launch"
    /\ UNCHANGED <<wgvars, flags, args, listResp, api, which, pattern, stories, c,
                   titem, items, nrecv, result, err, printed, crashed,
                   outcomes, received>>

----------------------------------------------------------------------------
(* fetch, one goroutine per id *)

\* main.go 157-159: http.Get returns an error.
FetchGetErrAt(i) ==
    /\ Running /\ pc[i] = "get"
    /\ api[i].kind \in {"neterr", "redirecterr"}
    /\ pc' = [pc EXCEPT ![i] = "send159"]
    /\ UNCHANGED <<wgvars, flags, args, listResp, api, mainpc, which, pattern,
                   stories, launched, c, titem, items, nrecv, result, err,
                   printed, crashed, outcomes, received>>

\* main.go 157-164: http.Get returns a response, whatever its status; the
\* body is decoded into item.
FetchGetRespAt(i) ==
    /\ Running /\ pc[i] = "get"
    /\ api[i].kind = "resp"
    /\ titem' = [titem EXCEPT ![i] = Decode(api[i], i).item]
    /\ pc' = [pc EXCEPT ![i] =
                IF Decode(api[i], i).err # Nil THEN "send165" ELSE "send167"]
    /\ UNCHANGED <<wgvars, flags, args, listResp, api, mainpc, which, pattern,
                   stories, launched, c, items, nrecv, result, err, printed,
                   crashed, outcomes, received>>

\* A send on c: blocks while the buffer is full.
Send(i, r, next) ==
    /\ Len(c) < Cap
    /\ c' = Append(c, r)
    /\ outcomes' = [outcomes EXCEPT ![i] = Append(@, r)]
    /\ pc' = [pc EXCEPT ![i] = next]

\* main.go 159: c <- fetchResult{err: ...}; the function does not return.
FetchSendGetErrAt(i) ==
    /\ Running /\ pc[i] = "send159"
    /\ Send(i, fetchResult(ZeroItem, "fetch: transport", i), "defer161")
    /\ UNCHANGED <<wgvars, flags, args, listResp, api, mainpc, which, pattern,
                   stories, launched, titem, items, nrecv, result, err,
                   printed, crashed, received>>

\* main.go 161 with resp == nil: resp.Body dereferences nil; the panic is not
\* recovered and ends the process.
FetchPanicAt(i) ==
    /\ Running /\ pc[i] = "defer161"
    /\ api[i].kind = "neterr"
    /\ crashed' = TRUE
    /\ pc' = [pc EXCEPT ![i] = "panic"]
    /\ UNCHANGED <<wgvars, flags, args, listResp, api, mainpc, which, pattern,
                   stories, launched, c, titem, items, nrecv, result, err,
                   printed, outcomes, received>>

\* main.go 161-164 with resp != nil after an error of http.Get: the body is
\* closed, Decode fails.
FetchDecodeClosedAt(i) ==
    /\ Running /\ pc[i] = "defer161"
    /\ api[i].kind = "redirecterr"
    /\ titem' = [titem EXCEPT ![i] = Decode(api[i], i).item]
    /\ pc' = [pc EXCEPT ![i] =
                IF Decode(api[i], i).err # Nil THEN "send165" ELSE "send167"]
    /\ UNCHANGED <<wgvars, flags, args, listResp, api, mainpc, which, pattern,
                   stories, launched, c, items, nrecv, result, err, printed,
                   crashed, outcomes, received>>

\* main.go 165: c <- fetchResult{err: ...}; the function does not return.
FetchSendDecodeErrAt(i) ==
    /\ Running /\ pc[i] = "send165"
    /\ Send(i, fetchResult(ZeroItem, "fetch: decode", i), "send167")
    /\ UNCHANGED <<wgvars, flags, args, listResp, api, mainpc, which, pattern,
                   stories, launched, titem, items, nrecv, result, err,
                   printed, crashed, received>>

\* main.go 167-168: c <- fetchResult{item: item}, then the function returns.
FetchSendItemAt(i) ==
    /\ Running /\ pc[i] = "send167"
    /\ Send(i, fetchResult(titem[i], Nil, i), "done")
    /\ UNCHANGED <<wgvars, flags, args, listResp, api, mainpc, which, pattern,
                   stories, launched, titem, items, nrecv, result, err,
                   printed, crashed, received>>

----------------------------------------------------------------------------
(* search, the collector, and the rest of main *)

\* Collect with the slice assigned instead of appended to.
Collect_assign(its, p, r) ==
    IF MatchString(p, r.item.Title).matched THEN <<r.item>> ELSE its

\* Collect with a matching item put in front.
Collect_prepend(its, p, r) ==
    IF MatchString(p, r.item.Title).matched THEN <<r.item>> \o its ELSE its

\* Collect with the result of the match not looked at.
Collect_unfiltered(its, p, r) == Append(its, r.item)

\* main.go 85-88: the title is matched, the error of MatchString is dropped,
\* a matching item is appended.
Collect(its, p, r) ==
    IF MatchString(p, r.item.Title).matched THEN Append(its, r.item) ELSE its

\* RecvErr with the error noted and the loop continued.
RecvErr_continue ==
    /\ Running /\ mainpc = "search"
    /\ nrecv < Len(stories)
    /\ c # <<>>
    /\ Head(c).err # Nil
    /\ c' = Tail(c)
    /\ received' = Append(received, Head(c))
    /\ err' = Head(c).err
    /\ nrecv' = nrecv + 1
    /\ UNCHANGED <<wgvars, flags, args, listResp, api, mainpc, which, pattern,
                   stories, launched, pc, titem, items, result, printed,
                   crashed, outcomes>>

\* main.go 80-84: an iteration that receives an error: return nil, r.err.
RecvErr ==
    /\ Running /\ mainpc = "search"
    /\ nrecv < Len(stories)
    /\ c # <<>>
    /\ Head(c).err # Nil
    /\ c' = Tail(c)
    /\ received' = Append(received, Head(c))
    /\ err' = Head(c).err
    /\ mainpc' = "returned"
    /\ UNCHANGED <<wgvars, flags, args, listResp, api, which, pattern, stories,
                   launched, pc, titem, items, nrecv, result, printed,
                   crashed, outcomes>>

\* main.go 80-89: an iteration that receives an item.
RecvItem ==
    /\ Running /\ mainpc = "search"
    /\ nrecv < Len(stories)
    /\ c # <<>>
    /\ Head(c).err = Nil
    /\ c' = Tail(c)
    /\ received' = Append(received, Head(c))
    /\ items' = Collect(items, pattern, Head(c))
    /\ nrecv' = nrecv + 1
    /\ UNCHANGED <<wgvars, flags, args, listResp, api, mainpc, which, pattern,
                   stories, launched, pc, titem, result, err, printed,
                   crashed, outcomes>>

\* main.go 90: the loop is over: return &searchResult{...}, nil.
SearchReturn ==
    /\ Running /\ mainpc = "search"
    /\ nrecv = Len(stories)
    /\ result' = searchResult(items)
    /\ err' = Nil
    /\ mainpc' = "returned"
    /\ UNCHANGED <<wgvars, flags, args, listResp, api, which, pattern, stories,
                   launched, c, pc, titem, items, nrecv, printed, crashed,
                   outcomes, received>>

\* main.go 93-95: search returned an error: log.Fatal(err).
SearchFatal ==
    /\ Running /\ mainpc = "returned"
    /\ err # Nil
    /\ mainpc' = "fatal"
    /\ UNCHANGED <<wgvars, flags, args, listResp, api, which, pattern, stories,
                   launched, c, pc, titem, items, nrecv, result, err,
                   printed, crashed, outcomes, received>>

\* main.go 96-99: print(result); main returns, or log.Fatal when the template
\* cannot be written to standard output.
PrintResult ==
    /\ Running /\ mainpc = "returned"
    /\ err = Nil
    /\ printed' = result
    /\ \E ok \in BOOLEAN :
          /\ mainpc' = IF ok THEN "exit" ELSE "fatal"
          /\ err' = IF ok THEN Nil ELSE "template: write"
    /\ UNCHANGED <<wgvars, flags, args, listResp, api, which, pattern, stories,
                   launched, c, pc, titem, items, nrecv, result, crashed,
                   outcomes, received>>

----------------------------------------------------------------------------

FetchGetErr == \E i \in DOMAIN pc : FetchGetErrAt(i)

FetchGetResp == \E i \in DOMAIN pc : FetchGetRespAt(i)

FetchSendGetErr == \E i \in DOMAIN pc : FetchSendGetErrAt(i)

FetchPanic == \E i \in DOMAIN pc : FetchPanicAt(i)

FetchDecodeClosed == \E i \in DOMAIN pc : FetchDecodeClosedAt(i)

FetchSendDecodeErr == \E i \in DOMAIN pc : FetchSendDecodeErrAt(i)

FetchSendItem == \E i \in DOMAIN pc : FetchSendItemAt(i)

Main ==
    \/ Usage
    \/ SelectCategory
    \/ GetStoriesFail
    \/ GetStories
    \/ Launch
    \/ RecvErr
    \/ RecvItem
    \/ SearchReturn
    \/ SearchFatal
    \/ PrintResult

Fetch ==
    \/ FetchGetErr
    \/ FetchGetResp
    \/ FetchSendGetErr
    \/ FetchPanic
    \/ FetchDecodeClosed
    \/ FetchSendDecodeErr
    \/ FetchSendItem

Next == Main \/ Fetch

Spec == Init /\ [][Next]_vars

----------------------------------------------------------------------------
(* The WaitGroup revision: unnamed/part_000, lines 1-108.  search sends its
   item only on a match; a goroutine closes c after gw.Wait(); main prints
   what it receives until c is closed.  It reads the same command line and
   the same mocked API. *)

\* The revision runs until its main returns or exits, or a goroutine panics.
WRunning == ~crashed /\ wmain \notin {"usage", "fatal", "exit"}

\* part_000 57-61: no PATTERN: usage message, os.Exit(1).
WUsage ==
    /\ WRunning /\ wmain = "start"
    /\ Len(args) = 0
    /\ wmain' = "usage"
    /\ UNCHANGED <<flags, args, listResp, api, pattern, crashed, pipevars,
                   itemIDs, gw, wc, wclosed, wpc, witem, closer, wprinted>>

\* part_000 62-72: pattern := flag.Arg(0); the switch picks the list url.
WSelectURL ==
    /\ WRunning /\ wmain = "start"
    /\ Len(args) > 0
    /\ pattern' = args[1]
    /\ wmain' = "resolve"
    /\ UNCHANGED <<flags, args, listResp, api, crashed, pipevars,
                   itemIDs, gw, wc, wclosed, wpc, witem, closer, wprinted>>

\* part_000 73-76: http.Get of the list fails: log.Fatal(err).
WGetListFail ==
    /\ WRunning /\ wmain = "resolve"
    /\ listResp.kind = "neterr"
    /\ wmain' = "fatal"
    /\ UNCHANGED <<flags, args, listResp, api, pattern, crashed, pipevars,
                   itemIDs, gw, wc, wclosed, wpc, witem, closer, wprinted>>

\* part_000 73-80: the list is answered; the error of Decode is dropped (a
\* body that is not a list leaves itemIDs nil);
\* c := make(chan item, len(itemIDs)).
WGetList ==
    /\ WRunning /\ wmain = "resolve"
    /\ listResp.kind # "neterr"
    /\ itemIDs' = listResp.ids
    /\ wc' = <<>>
    /\ wmain' = IF Len(listResp.ids) = 0 THEN "spawn" ELSE "launch"
    /\ UNCHANGED <<flags, args, listResp, api, pattern, crashed, pipevars,
                   gw, wclosed, wpc, witem, closer, wprinted>>

\* WLaunch with gw.Add(1) left out.
WLaunch_noAdd ==
    /\ WRunning /\ wmain = "launch"
    /\ Cardinality({i \in DOMAIN wpc : wpc[i] # "idle"}) < Len(itemIDs)
    /\ LET k == Cardinality({i \in DOMAIN wpc : wpc[i] # "idle"}) + 1 IN
          /\ wpc' = [wpc EXCEPT ![itemIDs[k]] = "get"]
          /\ wmain' = IF k = Len(itemIDs) THEN "spawn" ELSE "launch"
    /\ UNCHANGED <<flags, args, listResp, api, pattern, crashed, pipevars,
                   itemIDs, gw, wc, wclosed, witem, closer, wprinted>>

\* part_000 82-86: one iteration of the loop: gw.Add(1); go search(...).
\* The ids are launched in the order of itemIDs.
WLaunch ==
    /\ WRunning /\ wmain = "launch"
    /\ Cardinality({i \in DOMAIN wpc : wpc[i] # "idle"}) < Len(itemIDs)
    /\ LET k == Cardinality({i \in DOMAIN wpc : wpc[i] # "idle"}) + 1 IN
          /\ gw' = gw + 1
          /\ wpc' = [wpc EXCEPT ![itemIDs[k]] = "get"]
          /\ wmain' = IF k = Len(itemIDs) THEN "spawn" ELSE "launch"
    /\ UNCHANGED <<flags, args, listResp, api, pattern, crashed, pipevars,
                   itemIDs, wc, wclosed, witem, closer, wprinted>>

\* part_000 87-90: go func() { gw.Wait(); close(c) }().
WSpawnCloser ==
    /\ WRunning /\ wmain = "spawn"
    /\ closer' = "wait"
    /\ wmain' = "range"
    /\ UNCHANGED <<flags, args, listResp, api, pattern, crashed, pipevars,
                   itemIDs, gw, wc, wclosed, wpc, witem, wprinted>>

\* part_000 88: gw.Wait() returns when the counter is zero.
CloserWait ==
    /\ WRunning /\ closer = "wait"
    /\ gw = 0
    /\ closer' = "close"
    /\ UNCHANGED <<flags, args, listResp, api, pattern, crashed, pipevars,
                   wmain, itemIDs, gw, wc, wclosed, wpc, witem, wprinted>>

\* part_000 89: close(c).
CloserClose ==
    /\ WRunning /\ closer = "close"
    /\ wclosed' = TRUE
    /\ closer' = "done"
    /\ UNCHANGED <<flags, args, listResp, api, pattern, crashed, pipevars,
                   wmain, itemIDs, gw, wc, wpc, witem, wprinted>>

\* part_000 91-93: an iteration of for item := range c: fmt.Println(item).
WPrintItem ==
    /\ WRunning /\ wmain = "range"
    /\ wc # <<>>
    /\ wprinted' = Append(wprinted, Head(wc))
    /\ wc' = Tail(wc)
    /\ UNCHANGED <<flags, args, listResp, api, pattern, crashed, pipevars,
                   wmain, itemIDs, gw, wclosed, wpc, witem, closer>>

\* part_000 91-94: c is closed and drained: the loop ends, main returns.
WRangeEnd ==
    /\ WRunning /\ wmain = "range"
    /\ wc = <<>> /\ wclosed
    /\ wmain' = "exit"
    /\ UNCHANGED <<flags, args, listResp, api, pattern, crashed, pipevars,
                   itemIDs, gw, wc, wclosed, wpc, witem, closer, wprinted>>

\* part_000 100-101 with resp == nil (the error of http.Get is dropped):
\* resp.Body dereferences nil; the deferred gw.Done() runs and the panic ends
\* the process.
WSearchPanicAt(i) ==
    /\ WRunning /\ wpc[i] = "get"
    /\ api[i].kind = "neterr"
    /\ gw' = gw - 1
    /\ crashed' = TRUE
    /\ wpc' = [wpc EXCEPT ![i] = "panic"]
    /\ UNCHANGED <<flags, args, listResp, api, pattern, pipevars,
                   wmain, itemIDs, wc, wclosed, witem, closer, wprinted>>

\* part_000 100-105: a response; the errors of Decode and MatchString are
\* dropped; the title is matched.
WSearchGetAt(i) ==
    /\ WRunning /\ wpc[i] = "get"
    /\ api[i].kind \in {"resp", "redirecterr"}
    /\ witem' = [witem EXCEPT ![i] = Decode(api[i], i).item]
    /\ wpc' = [wpc EXCEPT ![i] =
                 IF MatchString(pattern, Decode(api[i], i).item.Title).matched
                 THEN "send" ELSE "return"]
    /\ UNCHANGED <<flags, args, listResp, api, pattern, crashed, pipevars,
                   wmain, itemIDs, gw, wc, wclosed, closer, wprinted>>

\* part_000 106: c <- item.  A send on a closed channel panics; otherwise
\* it blocks while the buffer is full.
WSearchSendAt(i) ==
    /\ WRunning /\ wpc[i] = "send"
    /\ IF wclosed
       THEN /\ crashed' = TRUE
            /\ wpc' = [wpc EXCEPT ![i] = "panic"]
            /\ UNCHANGED wc
       ELSE /\ Len(wc) < Len(itemIDs)
            /\ wc' = Append(wc, witem[i])
            /\ wpc' = [wpc EXCEPT ![i] = "return"]
            /\ UNCHANGED crashed
    /\ UNCHANGED <<flags, args, listResp, api, pattern, pipevars,
                   wmain, itemIDs, gw, wclosed, witem, closer, wprinted>>

\* part_000 99, 108: search returns; the deferred gw.Done() runs.
WSearchReturnAt(i) ==
    /\ WRunning /\ wpc[i] = "return"
    /\ gw' = gw - 1
    /\ wpc' = [wpc EXCEPT ![i] = "done"]
    /\ UNCHANGED <<flags, args, listResp, api, pattern, crashed, pipevars,
                   wmain, itemIDs, wc, wclosed, witem, closer, wprinted>>

WSearchPanic == \E i \in DOMAIN wpc : WSearchPanicAt(i)

WSearchGet == \E i \in DOMAIN wpc : WSearchGetAt(i)

WSearchSend == \E i \in DOMAIN wpc : WSearchSendAt(i)

WSearchReturn == \E i \in DOMAIN wpc : WSearchReturnAt(i)

NextWG ==
    \/ WUsage
    \/ WSelectURL
    \/ WGetListFail
    \/ WGetList
    \/ WLaunch
    \/ WSpawnCloser
    \/ CloserWait
    \/ CloserClose
    \/ WPrintItem
    \/ WRangeEnd
    \/ WSearchPanic
    \/ WSearchGet
    \/ WSearchSend
    \/ WSearchReturn

SpecWG == InitWG /\ [][NextWG]_vars

\* Fair scheduling of the goroutines of the revision.
FairSpecWG == SpecWG /\ WF_vars(NextWG)

\* The goroutines are scheduled fairly: a step that stays possible is taken.
\* Every behaviour is finite, so weak fairness of Next says no more than that
\* the process does not stop while a goroutine can run.
FairSpec == Spec /\ WF_vars(Next)

\* The exit status of the process: os.Exit(1) after the usage message and in
\* log.Fatal, 2 after an unrecovered panic, 0 when main returns.
ExitStatus ==
    CASE crashed -> 2
      [] mainpc \in {"usage", "fatal"} -> 1
      [] OTHER -> 0

----------------------------------------------------------------------------
(* Properties *)

\* A SearchResult has been returned by search.
Returned == result # NoResult

\* The process is over: main returned or exited, or a goroutine panicked.
Ended == ~Running

\* How many entries of the sequence s satisfy Test.
Count(s, Test(_)) == Cardinality({ k \in 1..Len(s) : Test(s[k]) })

\* C1: every launched fetch task sends exactly one outcome on c, whatever the
\* fetch does: never more than one, and one once the task has returned; so no
\* more than N outcomes are ever sent.
C1_ExactlyOneOutcome ==
    \A i \in DOMAIN pc :
        /\ Len(outcomes[i]) <= 1
        /\ pc[i] = "done" => Len(outcomes[i]) = 1

\* Every item request gets an answer.
AllAnswered == \A i \in DOMAIN api : api[i].kind # "hang"

\* C2: when every fetch completes, the collector loop terminates: it is never
\* left in its loop with nothing more able to happen; it has received at
\* most N outcomes, and exactly N when it returns without an error.
C2_CollectorTerminates ==
    /\ (AllAnswered /\ mainpc = "search") => ENABLED Next
    /\ Len(received) <= Len(stories)
    /\ (mainpc = "returned" /\ err = Nil) => Len(received) = Len(stories)

\* The fetch of id i has a transport error or a decode error.
FetchFails(i) ==
    \/ api[i].kind \in {"neterr", "redirecterr"}
    \/ api[i].kind = "resp" /\ Decode(api[i], i).err # Nil

\* C3: if an item fetch of the batch has a transport or decode error, no
\* SearchResult is ever returned or rendered, and the run ends with search
\* having returned an error.
C3_AnyErrorFailsRun ==
    (stories # <<>> /\ \E i \in DOMAIN api : FetchFails(i)) =>
        /\ ~Returned
        /\ printed = NoResult
        /\ Ended => (mainpc = "fatal" /\ err \in {"fetch: transport", "fetch: decode"})

\* C4: a returned SearchResult was built from exactly one Item outcome of each
\* requested id; its items are exactly the received items whose title
\* matches, each once; none of them is the zero item.
C4_ResultExact ==
    Returned =>
        /\ Len(received) = Len(stories)
        /\ \A k \in 1..Len(received) : received[k].err = Nil
        /\ \A i \in 1..Len(stories) :
              Count(received, LAMBDA r : r.from = i) = 1
        /\ \A k \in 1..Len(received) :
              LET v == received[k].item IN
              Count(result.Items, LAMBDA x : x = v) =
                  IF MatchString(pattern, v.Title).matched
                  THEN Count(received, LAMBDA r : r.item = v)
                  ELSE 0
        /\ \A k \in 1..Len(result.Items) :
              /\ \E j \in 1..Len(received) : received[j].item = result.Items[k]
              /\ result.Items[k] # ZeroItem

\* A 2xx status.
Is2xx(status) == status >= 200 /\ status <= 299

\* Every item request succeeds: a 2xx response with an item.
AllSucceed ==
    \A i \in DOMAIN api :
        api[i].kind = "resp" /\ Is2xx(api[i].status) /\ api[i].body = "item"

\* C5: with a pattern that does not compile, no SearchResult is produced,
\* also when every fetch succeeds and titles have been evaluated against it.
C5_InvalidPatternFails ==
    (AllSucceed /\ nrecv > 0 /\ ~Compiles(pattern)) => (~Returned /\ printed = NoResult)

\* C6: every SearchResult that search returns, and every one that is rendered,
\* has Total = len(Items).
C6_TotalIsLen ==
    /\ Returned => result.Total = Len(result.Items)
    /\ printed # NoResult => printed.Total = Len(printed.Items)

\* C6 witness: a result with two items has been returned.
C6_Witness == Returned /\ Len(result.Items) = 2 /\ result.Total = 2

\* The ids whose served title the pattern matches.
ExpectedIds ==
    { i \in DOMAIN api : MatchString(pattern, api[i].title).matched }

\* C7: when every item request succeeds, the returned Total and the multiset
\* of matched ids are determined by the responses and the pattern alone,
\* whatever the interleaving: each expected id once and no other.
C7_Deterministic ==
    (Returned /\ AllSucceed) =>
        /\ result.Total = Cardinality(ExpectedIds)
        /\ \A i \in DOMAIN api :
              Count(result.Items, LAMBDA x : x.ID = i) =
                  IF i \in ExpectedIds THEN 1 ELSE 0
        /\ \A k \in 1..Len(result.Items) : result.Items[k].ID \in DOMAIN api

\* C7 witness: two matches returned in the reverse of the request order.
C7_Witness ==
    /\ Returned /\ AllSucceed
    /\ Len(result.Items) = 2
    /\ result.Items[1].ID = 2 /\ result.Items[2].ID = 1

\* C8: no fetch task is ever blocked on a send: whenever a task is about to
\* send, c has a free slot.
C8_SendNeverBlocks ==
    \A i \in DOMAIN pc :
        (Running /\ pc[i] \in {"send159", "send165", "send167"}) => Len(c) < Cap

\* C9: a fetch task whose request fails with no response object never
\* reaches a panic; once its Error outcome is sent it ends normally.
C9_NoPanic ==
    \A i \in DOMAIN pc :
        api[i].kind = "neterr" => (pc[i] # "panic" /\ ~crashed)

\* C10: a fetch whose response has a non-2xx status sends only Error
\* outcomes, never an Item.
C10_Non2xxIsError ==
    \A i \in DOMAIN pc :
        (api[i].kind = "resp" /\ ~Is2xx(api[i].status)) =>
            \A k \in 1..Len(outcomes[i]) : outcomes[i][k].err # Nil

\* C11: if getStories fails, by network error or by decode error, the run
\* ends with a failure: no fetch task is launched, the collector receives
\* nothing and returns nothing, and nothing is rendered.
C11_ResolverFailureIsFatal ==
    listResp.kind # "resp" =>
        /\ mainpc \in {"start", "usage", "resolve", "fatal"}
        /\ launched = 0
        /\ \A i \in DOMAIN pc : pc[i] = "idle"
        /\ received = <<>>
        /\ ~Returned
        /\ printed = NoResult
        /\ mainpc = "fatal" => err \in {"get: transport", "get: decode"}

\* C11 witness: the run has ended by log.Fatal on the error of getStories.
C11_Witness ==
    /\ listResp.kind = "garbage"
    /\ mainpc = "fatal"
    /\ err = "get: decode"

\* C12: when every fetch succeeds and the pattern matches none of the N
\* titles, search is never stuck, and what it returns is a SearchResult with
\* Total = 0 and no Items, without an error.
C12_NoMatchIsEmptyResult ==
    (AllSucceed /\ ExpectedIds = {}) =>
        /\ mainpc = "search" => ENABLED Next
        /\ mainpc = "returned" =>
              (err = Nil /\ Returned /\ result.Total = 0 /\ result.Items = <<>>)
        /\ Returned => (result.Total = 0 /\ result.Items = <<>>)

\* C12 witness: two titles fetched, a pattern that compiles and matches
\* neither, and search has returned.
C12_Witness ==
    /\ AllSucceed /\ ExpectedIds = {}
    /\ Compiles(pattern)
    /\ Len(stories) = 2 /\ nrecv = 2
    /\ mainpc = "returned" /\ result.Total = 0

\* getStories has been called.
ResolverCalled == mainpc \notin {"start", "usage"}

\* C13: for every combination of the three flags, the selector passed to
\* getStories is one of new, top, best.
C13_SelectorIsCategory ==
    ResolverCalled => which \in {"new", "top", "best"}

\* C14: the story list is resolved before any fetch task is launched, and
\* every requested id has its task launched before the collector's first
\* receive.
C14_LaunchBeforeReceive ==
    /\ (launched > 0 \/ \E i \in DOMAIN pc : pc[i] # "idle") =>
          (mainpc \notin {"start", "usage", "resolve"} /\ stories = listResp.ids)
    /\ received # <<>> =>
          /\ launched = Len(stories)
          /\ \A k \in 1..Len(stories) : pc[stories[k]] # "idle"

\* C14 witness: with two ids requested, the collector has received.
C14_Witness == Len(stories) = 2 /\ Len(received) = 1 /\ launched = 2

\* The items of the outcomes in rs whose title the pattern matches, in the
\* order of rs.
MatchedItems(rs) ==
    LET sel == SelectSeq(rs, LAMBDA r : MatchString(pattern, r.item.Title).matched)
    IN  [k \in 1..Len(sel) |-> sel[k].item]

\* C15: an Error outcome is the last thing the collector receives: it
\* evaluates no further title, search returns that error and no SearchResult,
\* and whatever arrives later stays in c.
C15_FailFast ==
    \A k \in 1..Len(received) :
        received[k].err # Nil =>
            /\ k = Len(received)
            /\ nrecv = k - 1
            /\ items = MatchedItems(SubSeq(received, 1, k - 1))
            /\ mainpc \in {"returned", "fatal"}
            /\ err = received[k].err
            /\ ~Returned
            /\ printed = NoResult

\* C15 witness: the run has ended on a received error while another outcome
\* was left in c.
C15_Witness ==
    /\ received # <<>>
    /\ received[Len(received)].err # Nil
    /\ c # <<>>
    /\ mainpc = "fatal"

\* C16: the Items of a returned SearchResult are the matching items in the
\* order in which their outcomes were received.
C16_ReceiveOrder ==
    Returned => result.Items = MatchedItems(received)

\* C16 witness: two matching items, received and returned with the second
\* requested id first.
C16_Witness ==
    /\ Returned
    /\ Len(received) = 2
    /\ received[1].from = 2 /\ received[2].from = 1
    /\ Len(result.Items) = 2
    /\ result.Items[1] = received[1].item

\* C17: no fetch task blocks for ever: a task that has been launched
\* eventually delivers an outcome, also when its request is never answered,
\* and the collector eventually leaves its receive loop (unless the process
\* ends first).
C17_FetchDelivers ==
    /\ \A i \in 1..MaxStories :
          (i \in DOMAIN pc /\ pc[i] = "get") ~>
              ((i \in DOMAIN pc /\ outcomes[i] # <<>>) \/ Ended)
    /\ (mainpc = "search") ~> (mainpc # "search" \/ Ended)

\* C18: with no PATTERN argument the program exits with a non-zero status
\* before any network activity: the story list is never requested, no fetch
\* task is launched, nothing is received or rendered.
C18_UsageBeforeNetwork ==
    args = <<>> =>
        /\ mainpc \in {"start", "usage"}
        /\ ~ResolverCalled
        /\ stories = <<>> /\ launched = 0
        /\ \A i \in DOMAIN pc : pc[i] = "idle" /\ outcomes[i] = <<>>
        /\ received = <<>>
        /\ ~Returned /\ printed = NoResult
        /\ Ended => ExitStatus # 0

\* C18 witness: the run has ended in the usage exit.
C18_Witness == args = <<>> /\ mainpc = "usage" /\ Ended /\ ExitStatus = 1

\* C19: the category is the first true flag in the order new, top, best: new
\* whenever the new flag is true (so also when top or best is set and new is
\* left at its default), top only with new false, best only with new and top
\* false.
C19_FirstTrueWins ==
    ResolverCalled =>
        /\ which = "new" <=> flags.news
        /\ which = "top" <=> (~flags.news /\ flags.top)
        /\ which = "best" <=> (~flags.news /\ ~flags.top /\ flags.best)

\* C19 witness: new left true and top also set: the selector is new.
C19_Witness ==
    /\ ResolverCalled
    /\ flags.news /\ flags.top /\ ~flags.best
    /\ which = "new"

\* Every request of the WaitGroup revision gets a response object.
AllRespond ==
    /\ listResp.kind # "neterr"
    /\ \A i \in DOMAIN api : api[i].kind \in {"resp", "redirecterr"}

\* The ids of the revision whose decoded item is v and matches the pattern.
MatchingAs(v) ==
    { i \in DOMAIN api :
        /\ Decode(api[i], i).item = v
        /\ MatchString(pattern, v.Title).matched }

\* The state part of C20.
WaitGroupSafe ==
    /\ ~crashed
    /\ wclosed => \A k \in 1..Len(itemIDs) : wpc[itemIDs[k]] = "done"
    /\ \A i \in DOMAIN wpc :
          wpc[i] = "send" => (~wclosed /\ Len(wc) < Len(itemIDs))
    /\ \A k \in 1..Len(wprinted) :
          Count(wprinted, LAMBDA x : x = wprinted[k])
              <= Cardinality(MatchingAs(wprinted[k]))
    /\ wmain = "exit" =>
          \A i \in DOMAIN api :
              LET v == Decode(api[i], i).item IN
              MatchString(pattern, v.Title).matched =>
                  Count(wprinted, LAMBDA x : x = v) = Cardinality(MatchingAs(v))

\* C20: in the WaitGroup revision, when every request gets a response: c is
\* closed only after all N search tasks have finished, no task sends on the
\* closed channel or waits on a send, every matching item is printed exactly
\* once, and the receive loop of main terminates.
C20_WaitGroupRevision ==
    /\ [](AllRespond => WaitGroupSafe)
    /\ (AllRespond /\ wmain = "resolve") ~> (wmain = "exit")

\* C20 witness: two matching items have been printed and main has returned
\* after the close.
C20_Witness ==
    /\ AllRespond
    /\ wmain = "exit" /\ wclosed
    /\ Len(itemIDs) = 2 /\ Len(wprinted) = 2

====
